---- MODULE Spec2Model ----
(***************************************************************************)
(* BatchSignerTool: multi-party authorization of an XRPL Batch             *)
(* transaction.  The model covers the CLI tool (batchSignerTool.js), the   *)
(* example scripts (batchSignersPay.js, batchSignersTrustline.js), the web *)
(* form (script.js) and the devnet demo (devnet.js).                       *)
(*                                                                         *)
(* JavaScript objects live in a heap (a sequence of records addressed by   *)
(* index), so that a shallow copy, a deep copy and an alias are different  *)
(* things.  The xrpl library calls (Wallet.fromSeed, signMultiBatch,       *)
(* combineBatchSigners, decode, autofill, Wallet.sign, submitAndWait) are  *)
(* modelled by what the library does at the call site; signatures are      *)
(* symbolic: a signature is the pair (signing key, signed digest).         *)
(***************************************************************************)
EXTENDS Integers, Sequences, FiniteSets, TLC

\* ---------------------------------------------------------------- bounds
MaxAddr == 3
MaxInner == 2
MaxSigners == 2

\* ------------------------------------------------------ program constants
MinSeedLen == 25
tfUntilFailure == 262144
tfInnerBatchTxn == 1073741824
SubmitFee == 1000
DemoFee == 100
DemoRetryFee == 200
DemoLedgerBuffer == 60
DemoAttempts == 2
WebMinInner == 2
WebMaxInner == 8

\* ------------------------------------------------------------------ data
Addr == 1..MaxAddr
NoRef == 0

\* The batch policy flags of a well-formed template (tfAllOrNothing, tfUntilFailure).
BatchFlags == {65536, tfUntilFailure}

\* A seed as the tool sees it: whether it is a string, its first character,
\* its length, and the address Wallet.fromSeed derives from it.
GoodSeed(a) == [isString |-> TRUE, first |-> "s", len |-> 29, addr |-> a]
BadSeed == [isString |-> TRUE, first |-> "x", len |-> 29, addr |-> 0]
Seeds == {GoodSeed(a) : a \in Addr} \cup {BadSeed}

\* Seeds of other shapes: another encoding of the same key pair, the
\* shortest accepted length, one character less, the empty string, a value
\* that is no string, a short string with a wrong first character.
LongSeed(a) == [GoodSeed(a) EXCEPT !.len = 31]
MinSeed(a) == [GoodSeed(a) EXCEPT !.len = MinSeedLen]
ShortSeed == [isString |-> TRUE, first |-> "s", len |-> MinSeedLen - 1, addr |-> 0]
EmptySeed == [isString |-> TRUE, first |-> "", len |-> 0, addr |-> 0]
NumberSeed == [isString |-> FALSE, first |-> "", len |-> 5, addr |-> 0]
ShortBadSeed == [isString |-> TRUE, first |-> "x", len |-> 10, addr |-> 0]
AllSeeds ==
    Seeds \cup {LongSeed(a) : a \in Addr} \cup {MinSeed(a) : a \in Addr}
        \cup {ShortSeed, EmptySeed, NumberSeed, ShortBadSeed}

\* An inner transaction: Fee "0" is 0, an empty SigningPubKey is 0, an absent
\* TxnSignature is 0.  An Amount in drops is a positive number, an issued
\* currency amount (an object) a negative one, no Amount is 0.
Inner(a) ==
    [TransactionType |-> "Payment", Account |-> a, Amount |-> 1, Fee |-> 0,
     SigningPubKey |-> 0, TxnSignature |-> 0, Flags |-> tfInnerBatchTxn]

TrustSetInner(a) == [Inner(a) EXCEPT !.TransactionType = "TrustSet", !.Amount = 0]

TokenPayment(a) == [Inner(a) EXCEPT !.Amount = 0 - 100]

InnerTxs == {Inner(a) : a \in Addr}
RawSeqs == UNION {[1..n -> InnerTxs] : n \in 1..MaxInner}

Template(p, f, raw) ==
    [TransactionType |-> "Batch", Account |-> p, Flags |-> f,
     RawTransactions |-> raw, Sequence |-> 0, Fee |-> 0,
     LastLedgerSequence |-> 0, BatchSigners |-> <<>>, TxnSignature |-> 0]

Templates == {Template(p, f, raw) : p \in Addr, f \in BatchFlags, raw \in RawSeqs}

\* Flags with no policy bit and with two policy bits.
BadBatchFlags == {0, 65536 + tfUntilFailure}

\* Templates that are not well formed: wrong kind, no inner transaction,
\* bad policy flags, an inner transaction with a fee, a signing key, a
\* signature, or without the inner-batch flag.
MalformedOuter ==
    {[t EXCEPT !.TransactionType = "Payment"] : t \in {Template(1, tfUntilFailure, <<Inner(2)>>)}}
        \cup {Template(1, tfUntilFailure, <<>>)}
        \cup {Template(1, f, <<Inner(2)>>) : f \in BadBatchFlags}

MalformedInner ==
    LET t == Template(1, tfUntilFailure, <<Inner(2)>>) IN
    {[t EXCEPT !.RawTransactions[1].Fee = 10],
     [t EXCEPT !.RawTransactions[1].SigningPubKey = 2],
     [t EXCEPT !.RawTransactions[1].TxnSignature = 2],
     [t EXCEPT !.RawTransactions[1].Flags = 0]}

\* What the ledger hands to autofill: next sequence, fee, expiry ledger.
Envelopes == {[Sequence |-> 7, Fee |-> 12, LastLedgerSequence |-> 30],
              [Sequence |-> 8, Fee |-> 15, LastLedgerSequence |-> 31]}

Results == {"tesSUCCESS", "tecFAILED", "telLAST_LEDGER_SEQUENCE"}

\* ------------------------------------------------------------ tool checks
validateBatchTransaction(tx) ==
    /\ tx.TransactionType = "Batch"
    /\ Len(tx.RawTransactions) # 0

validateSeedErrorLengthFirst(seed) ==
    IF seed.len = 0 \/ ~seed.isString THEN "Invalid seed: must be a string"
    ELSE IF seed.len < MinSeedLen THEN "Invalid seed: too short"
    ELSE IF seed.first # "s" THEN "Invalid seed: must start with s"
    ELSE ""

\* validateSeed: the message of the error it throws, "" when it returns true.
validateSeedError(seed) ==
    IF seed.len = 0 \/ ~seed.isString THEN "Invalid seed: must be a string"
    ELSE IF seed.first # "s" THEN "Invalid seed: must start with s"
    ELSE IF seed.len < MinSeedLen THEN "Invalid seed: too short"
    ELSE ""

validateSeed(seed) == validateSeedError(seed) = ""

DeriveFromLength(seed) == ((seed.addr + seed.len) % MaxAddr) + 1

\* Wallet.fromSeed(seed).address; a wallet is identified with its address,
\* which also stands for its key pair.
Derive(seed) == seed.addr

involvedAccounts(tx, signerAddress) ==
    {k \in 1..Len(tx.RawTransactions) : tx.RawTransactions[k].Account = signerAddress}

IsSubmitterNoCheck(tx, signerAddress) == FALSE

\* checkSignerInvolvement throws exactly when the signer is the submitter.
IsSubmitter(tx, signerAddress) == tx.Account = signerAddress

\* ... and warns when the signer submits no inner transaction.
Uninvolved(tx, signerAddress) == involvedAccounts(tx, signerAddress) = {}

\* ------------------------------------------------------------ xrpl library
Digest(tx) == [flags |-> tx.Flags, txIDs |-> tx.RawTransactions]

Sign(key, digest) == [key |-> key, msg |-> digest]

Verifies(signer, tx) ==
    signer.BatchTxnSignature = Sign(signer.SigningPubKey, Digest(tx))

batchAccountOf(w, opts) == IF opts # 0 THEN opts ELSE w

HasInnerFlag(flags) == (flags \div tfInnerBatchTxn) % 2 = 1

\* signMultiBatch throws when the signing account submits no inner
\* transaction, and when the library's validate(transaction) does: not a
\* Batch, or an inner transaction without the tfInnerBatchTxn flag.
signMultiBatchThrows(w, tx, opts) ==
    \/ tx.TransactionType # "Batch"
    \/ Uninvolved(tx, batchAccountOf(w, opts))
    \/ \E k \in 1..Len(tx.RawTransactions) : ~HasInnerFlag(tx.RawTransactions[k].Flags)

BatchSignerOf(w, tx, opts) ==
    [Account |-> batchAccountOf(w, opts), SigningPubKey |-> w,
     BatchTxnSignature |-> Sign(w, Digest(tx))]

signMultiBatch(w, tx, opts) ==
    [tx EXCEPT !.BatchSigners = <<BatchSignerOf(w, tx, opts)>>]

RECURSIVE Flatten(_)
Flatten(ss) == IF ss = <<>> THEN <<>> ELSE Head(ss) \o Flatten(Tail(ss))

RECURSIVE Filter(_, _)
Filter(s, acct) ==
    IF s = <<>> THEN <<>>
    ELSE IF Head(s).Account # acct THEN <<Head(s)>> \o Filter(Tail(s), acct)
    ELSE Filter(Tail(s), acct)

\* compareSigners: numeric comparison of the account ids.
RECURSIVE InsertSigner(_, _)
InsertSigner(sorted, x) ==
    IF sorted = <<>> THEN <<x>>
    ELSE IF x.Account < Head(sorted).Account THEN <<x>> \o sorted
    ELSE <<Head(sorted)>> \o InsertSigner(Tail(sorted), x)

RECURSIVE SortSigners(_)
SortSigners(s) ==
    IF s = <<>> THEN <<>>
    ELSE InsertSigner(SortSigners(SubSeq(s, 1, Len(s) - 1)), s[Len(s)])

combineBatchSignersThrows(txs) ==
    \/ Len(txs) = 0
    \/ \E k \in 1..Len(txs) :
           \/ txs[k].TransactionType # "Batch"
           \/ txs[k].BatchSigners = <<>>
           \/ txs[k].TxnSignature # 0
    \/ \E k \in 1..Len(txs) : Digest(txs[k]) # Digest(txs[1])

UnsortedCombine(txs) ==
    [txs[1] EXCEPT !.BatchSigners =
        Filter(Flatten([k \in 1..Len(txs) |-> txs[k].BatchSigners]), txs[1].Account)]

combineBatchSigners(txs) ==
    [txs[1] EXCEPT !.BatchSigners =
        SortSigners(Filter(Flatten([k \in 1..Len(txs) |-> txs[k].BatchSigners]),
                           txs[1].Account))]

AutofillRefreshingInner(tx, env, keep) ==
    [tx EXCEPT !.RawTransactions[1].Amount = env.Sequence,
               !.Sequence = env.Sequence, !.Fee = env.Fee,
               !.LastLedgerSequence = env.LastLedgerSequence]

\* client.autofill: a new object whose envelope fields are filled from the
\* ledger; a field already present is kept (keep) or refreshed.
autofill(tx, env, keep) ==
    [tx EXCEPT
       !.Sequence = IF keep /\ @ # 0 THEN @ ELSE env.Sequence,
       !.Fee = IF keep /\ @ # 0 THEN @ ELSE env.Fee,
       !.LastLedgerSequence = IF keep /\ @ # 0 THEN @ ELSE env.LastLedgerSequence]

\* client.autofill of a Batch throws when an inner transaction has a Fee
\* other than "0", a non-empty SigningPubKey or a TxnSignature.
autofillThrows(tx) ==
    \E k \in 1..Len(tx.RawTransactions) :
        LET in == tx.RawTransactions[k] IN
        in.Fee # 0 \/ in.SigningPubKey # 0 \/ in.TxnSignature # 0

\* Wallet.sign: the signed blob of the whole transaction.
walletSign(w, tx) == [tx EXCEPT !.TxnSignature = w]

\* ------------------------------------------------------------------- heap
Alloc(h, v) == [heap |-> Append(h, v), ref |-> Len(h) + 1]

AliasCopy(h, r) == [heap |-> h, ref |-> r]

\* { ...tx } and JSON.parse(JSON.stringify(tx)): a new object with tx's fields.
SpreadCopy(h, r) == Alloc(h, h[r])

CopyAliased(h, r, k) == AliasCopy(h, r)

CopyRefreshed(h, r, k) == Alloc(h, [h[r] EXCEPT !.Sequence = @ + k])

CopyReflagged(h, r, k) == Alloc(h, [h[r] EXCEPT !.Flags = @ + k - 1])

\* const txForSigning = { ...autofilledTx }: the copy made for signer k.
CopyForSigner(h, r, k) == SpreadCopy(h, r)

\* The objects a list of references points to.
Deref(h, refs) == [k \in 1..Len(refs) |-> h[refs[k]]]

SeqsUpTo(S, n) == UNION {[1..k -> S] : k \in 0..n}

\* ------------------------------------------------------------------ state
VARIABLES
    wf,                 \* the entry point that is running
    pc,                 \* its position
    heap,               \* the JavaScript objects
    batchTx,            \* the caller's template (script.js: batchTemplate)
    signerSeeds,        \* the signer seed(s) passed in
    parentSeed,         \* the parent seed passed in
    options,            \* options.batchAccount (0: not given)
    i,                  \* loop index of the signer loop
    autofilledTx,       \* reference to the autofilled template
    signedTransactions, \* references to the signed copies
    combinedTx,         \* the blob combineBatchSigners returned (<<>>: none)
    reAutofilledTx,     \* reference to the re-autofilled transaction
    fullBatch,          \* devnet.js / script.js: template plus BatchSigners
    signed,             \* the blob the parent signed (<<>>: none)
    submitted,          \* the blobs handed to submitAndWait, in order
    result,             \* the last TransactionResult
    attempt,            \* devnet.js: submission attempt
    connected,          \* the ledger client is connected
    error,              \* the error the run ended with ("": none)
    batchSignatures,    \* generateMultipleBatchSignatures: collected so far
    output,             \* the BatchSigner objects returned or displayed
    warned,             \* the not-involved warning was given
    wallet,             \* script.js: wallet (0: null)
    fullBatchOutput,    \* script.js: the full batch displayed (<<>>: none)
    devnetMode,         \* script.js: devnetModeCheckbox.checked
    generateBtnDisabled,  \* script.js: generateBtn.disabled
    startDemoBtnDisabled, \* script.js: startDemoBtn.disabled
    argv,               \* main: the command line (process.argv.slice(2))
    devnetAccounts,     \* runTestMode: devnetAccounts.json (<<>>: no file)
    roles,              \* runTestMode: what assignAccountRoles returned
    rl,                 \* the tool's readline interface: "none", "open", "closed"
    returned,           \* main: the mode it called has returned
    log,                \* history: the protocol steps taken, in order
    snap                \* history: values of objects when they were made

vars == <<wf, pc, heap, batchTx, signerSeeds, parentSeed, options, i,
          autofilledTx, signedTransactions, combinedTx, reAutofilledTx,
          fullBatch, signed, submitted, result, attempt, connected, error,
          batchSignatures, output, warned, wallet, fullBatchOutput,
          devnetMode, generateBtnDisabled, startDemoBtnDisabled,
          argv, devnetAccounts, roles, rl, returned, log, snap>>

CompleteWfs == {"submit1", "submitN"}
ExampleWfs == {"examplePay", "exampleTrust"}
PipelineWfs == CompleteWfs \cup ExampleWfs

\* A string given where a seed or an account is expected: what it is as a
\* seed and what it is as an account (NoAccount: no account of any batch).
NoAccount == MaxAddr + 2
SeedString(a) == [asSeed |-> GoodSeed(a), asAddr |-> NoAccount]
AddrString(a) == [asSeed |-> BadSeed, asAddr |-> a]

\* The command line: the flags, the number of other arguments, whether the
\* first is an existing file, and the second to fourth argument.
Argv(t, sub, n, f, s2, s3, a4) ==
    [testFlag |-> t, submitFlag |-> sub, n |-> n, fileExists |-> f,
     seed |-> s2, third |-> s3, fourth |-> a4]

NoArgv == Argv(FALSE, FALSE, 0, FALSE, BadSeed, AddrString(1), 0)

Fresh(w, h, b, ss, ps, o) ==
    /\ wf = w /\ heap = h /\ batchTx = b /\ signerSeeds = ss
    /\ parentSeed = ps /\ options = o
    /\ pc = "start" /\ i = 1 /\ autofilledTx = NoRef
    /\ signedTransactions = <<>> /\ combinedTx = <<>>
    /\ reAutofilledTx = NoRef /\ fullBatch = NoRef /\ signed = <<>>
    /\ submitted = <<>> /\ result = "" /\ attempt = 1
    /\ connected = FALSE /\ error = "" /\ output = <<>>
    /\ batchSignatures = <<>>
    /\ warned = FALSE /\ wallet = 0 /\ log = <<>>
    /\ rl = (IF w \in {"sig", "multiSig", "submit1", "submitN"} THEN "open" ELSE "none")
    /\ returned = FALSE
    /\ fullBatchOutput = <<>> /\ devnetMode = (w = "demo")
    /\ generateBtnDisabled = TRUE /\ startDemoBtnDisabled = (w # "demo")
    /\ snap = [batch |-> IF b = NoRef THEN <<>> ELSE <<h[b]>>,
               autofilled |-> <<>>, signed |-> <<>>]

\* A method of the tool called directly, not through main.
Blank(w, h, b, ss, ps, o) ==
    /\ Fresh(w, h, b, ss, ps, o)
    /\ argv = NoArgv /\ devnetAccounts = <<>> /\ roles = <<>>

Init ==
    \/ \E t \in Templates, s \in Seeds, o \in 0..MaxAddr :
           Blank("sig", <<t>>, 1, <<s>>, BadSeed, o)
    \/ \E t \in Templates, ss \in SeqsUpTo(Seeds, MaxSigners) :
           Blank("multiSig", <<t>>, 1, ss, BadSeed, 0)
    \/ \E t \in Templates, s \in Seeds, p \in Seeds, o \in 0..MaxAddr :
           Blank("submit1", <<t>>, 1, <<s>>, p, o)
    \/ \E t \in Templates, ss \in SeqsUpTo(Seeds, MaxSigners), p \in Seeds :
           Blank("submitN", <<t>>, 1, ss, p, 0)
    \/ \E c1 \in Seeds, c2 \in Seeds, p \in Seeds :
           Blank("examplePay", <<>>, NoRef, <<c1, c2>>, p, 0)
    \/ \E c2 \in Seeds, p \in Seeds :
           Blank("exampleTrust", <<>>, NoRef, <<c2>>, p, 0)
    \/ \E acc1 \in Addr : \E acc2 \in Addr \ {acc1} :
           Blank("demo", <<>>, NoRef, <<GoodSeed(acc2)>>, GoodSeed(acc1), 0)
    \/ Blank("web", <<>>, NoRef, <<>>, BadSeed, 0)

front == <<argv, devnetAccounts, roles, rl, returned>>
inputs == <<wf, batchTx, signerSeeds, parentSeed, options, front>>
later == <<combinedTx, reAutofilledTx, fullBatch, signed, submitted, result, attempt>>
ui == <<devnetMode, generateBtnDisabled, startDemoBtnDisabled>>
web == <<wallet, fullBatchOutput, ui>>

\* Where a thrown error takes the run: the CLI methods rethrow, the example
\* scripts and the demo go through their finally block.
CatchPc == IF wf \in CompleteWfs \cup {"sig", "multiSig"} THEN "failed" ELSE "finally"

\* ------------------------------------------- generateBatchSignature (CLI)
generateBatchSignature ==
    /\ wf = "sig" /\ pc = "start"
    /\ LET tx == heap[batchTx]
           seed == signerSeeds[1]
           w == Derive(seed)
           c == CopyForSigner(heap, batchTx, 1)
           throws == signMultiBatchThrows(w, c.heap[c.ref], options)
           h2 == [c.heap EXCEPT ![c.ref] = signMultiBatch(w, c.heap[c.ref], options)]
       IN
       IF ~validateBatchTransaction(tx)
       THEN pc' = "failed" /\ error' = "invalidBatch"
            /\ UNCHANGED <<heap, warned, output, snap, log>>
       ELSE IF ~validateSeed(seed)
       THEN pc' = "failed" /\ error' = validateSeedError(seed)
            /\ UNCHANGED <<heap, warned, output, snap, log>>
       ELSE IF IsSubmitter(tx, w)
       THEN pc' = "exited" /\ error' = "submitter"
            /\ UNCHANGED <<heap, warned, output, snap, log>>
       ELSE /\ warned' = Uninvolved(tx, w)
            /\ IF throws
               THEN pc' = "failed" /\ error' = "signMultiBatch" /\ heap' = c.heap
                    /\ UNCHANGED <<output, snap, log>>
               ELSE /\ pc' = "done" /\ error' = "" /\ heap' = h2
                    /\ output' = <<h2[c.ref].BatchSigners[1]>>
                    /\ snap' = [snap EXCEPT !.signed = Append(@, h2[c.ref])]
                    /\ log' = Append(log, "commit")
    /\ UNCHANGED <<inputs, later, i, autofilledTx, signedTransactions,
                   connected, batchSignatures, web>>

\* --------------------------------- generateMultipleBatchSignatures (CLI)
MultiStart ==
    /\ wf = "multiSig" /\ pc = "start"
    /\ IF ~validateBatchTransaction(heap[batchTx])
       THEN pc' = "failed" /\ error' = "invalidBatch"
       ELSE pc' = (IF Len(signerSeeds) = 0 THEN "print" ELSE "sign") /\ error' = ""
    /\ UNCHANGED <<inputs, later, heap, i, autofilledTx, signedTransactions,
                   connected, batchSignatures, output, warned, web, log, snap>>

MultiIter ==
    /\ wf = "multiSig" /\ pc = "sign"
    /\ LET tx == heap[batchTx]
           seed == signerSeeds[i]
           w == Derive(seed)
           c == CopyForSigner(heap, batchTx, i)
           throws == signMultiBatchThrows(w, c.heap[c.ref], options)
           h2 == [c.heap EXCEPT ![c.ref] = signMultiBatch(w, c.heap[c.ref], options)]
       IN
       IF ~validateSeed(seed)
       THEN pc' = "failed" /\ error' = validateSeedError(seed)
            /\ UNCHANGED <<heap, warned, batchSignatures, snap, log, i>>
       ELSE IF IsSubmitter(tx, w)
       THEN pc' = "failed" /\ error' = "submitter"
            /\ UNCHANGED <<heap, warned, batchSignatures, snap, log, i>>
       ELSE /\ warned' = (warned \/ Uninvolved(tx, w))
            /\ IF throws
               THEN pc' = "failed" /\ error' = "signMultiBatch" /\ heap' = c.heap
                    /\ UNCHANGED <<batchSignatures, snap, log, i>>
               ELSE /\ pc' = (IF i = Len(signerSeeds) THEN "print" ELSE "sign")
                    /\ error' = "" /\ heap' = h2 /\ i' = i + 1
                    /\ batchSignatures' = Append(batchSignatures, h2[c.ref].BatchSigners[1])
                    /\ snap' = [snap EXCEPT !.signed = Append(@, h2[c.ref])]
                    /\ log' = Append(log, "commit")
    /\ UNCHANGED <<inputs, later, autofilledTx, signedTransactions, connected,
                   output, web>>

MultiDone ==
    /\ wf = "multiSig" /\ pc = "print"
    /\ pc' = "done" /\ output' = batchSignatures
    /\ UNCHANGED <<inputs, later, heap, i, autofilledTx, signedTransactions,
                   connected, error, batchSignatures, warned, web, log, snap>>

\* ------------ generateAndSubmitBatch, generateAndSubmitMultiSignerBatch
Connect ==
    /\ wf \in PipelineWfs /\ pc = "start"
    /\ connected' = TRUE
    /\ pc' = (IF wf \in CompleteWfs THEN "prepare" ELSE "build")
    /\ UNCHANGED <<inputs, later, heap, i, autofilledTx, signedTransactions,
                   error, batchSignatures, output, warned, web, log, snap>>

ParentMatchesAlways(tx, parentWallet) == TRUE

\* batchTx.Account !== parentWallet.address
parentMatches(tx, parentWallet) == tx.Account = parentWallet

\* Step 2: validate the seeds, derive the wallets, compare the parent with
\* the batch Account.
Prepare ==
    /\ wf \in CompleteWfs /\ pc = "prepare"
    /\ IF wf = "submit1" /\ ~validateSeed(signerSeeds[1])
       THEN pc' = "failed" /\ error' = validateSeedError(signerSeeds[1])
       ELSE IF ~validateSeed(parentSeed)
       THEN pc' = "failed" /\ error' = validateSeedError(parentSeed)
       ELSE IF ~parentMatches(heap[batchTx], Derive(parentSeed))
       THEN pc' = "failed" /\ error' = "parentMismatch"
       ELSE pc' = "autofill" /\ error' = ""
    /\ UNCHANGED <<inputs, later, heap, i, autofilledTx, signedTransactions,
                   connected, batchSignatures, output, warned, web, log, snap>>

\* Step 3: const autofilledTx = await client.autofill(batchTx)
Autofill ==
    /\ wf \in PipelineWfs /\ pc = "autofill"
    /\ IF autofillThrows(heap[batchTx])
       THEN /\ pc' = CatchPc /\ error' = "autofill"
            /\ UNCHANGED <<heap, autofilledTx, snap, log>>
       ELSE /\ \E env \in Envelopes :
                  LET a == Alloc(heap, autofill(heap[batchTx], env, TRUE)) IN
                  /\ heap' = a.heap /\ autofilledTx' = a.ref
                  /\ snap' = [snap EXCEPT !.autofilled = <<a.heap[a.ref]>>]
            /\ log' = Append(log, "autofill")
            /\ pc' = (IF Len(signerSeeds) = 0 THEN "combine" ELSE "sign")
            /\ UNCHANGED error
    /\ UNCHANGED <<inputs, later, i, signedTransactions, connected,
                   batchSignatures, output, warned, web>>

\* Step 4: one signer: validateSeed (multi-signer loop only), fromSeed,
\* checkSignerInvolvement, copy, signMultiBatch.
SignStep ==
    /\ wf \in PipelineWfs /\ pc = "sign"
    /\ LET seed == signerSeeds[i]
           w == Derive(seed)
           tx == heap[autofilledTx]
           c == CopyForSigner(heap, autofilledTx, i)
           throws == signMultiBatchThrows(w, c.heap[c.ref], options)
           h2 == [c.heap EXCEPT ![c.ref] = signMultiBatch(w, c.heap[c.ref], options)]
       IN
       IF wf = "submitN" /\ ~validateSeed(seed)
       THEN pc' = "failed" /\ error' = validateSeedError(seed)
            /\ UNCHANGED <<heap, warned, signedTransactions, snap, log, i>>
       ELSE IF wf \in CompleteWfs /\ IsSubmitter(tx, w)
       THEN pc' = "failed" /\ error' = "submitter"
            /\ UNCHANGED <<heap, warned, signedTransactions, snap, log, i>>
       ELSE /\ warned' = (warned \/ (wf \in CompleteWfs /\ Uninvolved(tx, w)))
            /\ IF throws
               THEN pc' = CatchPc /\ error' = "signMultiBatch" /\ heap' = c.heap
                    /\ UNCHANGED <<signedTransactions, snap, log, i>>
               ELSE /\ pc' = (IF i = Len(signerSeeds) THEN "combine" ELSE "sign")
                    /\ error' = "" /\ heap' = h2 /\ i' = i + 1
                    /\ signedTransactions' = Append(signedTransactions, c.ref)
                    /\ snap' = [snap EXCEPT !.signed = Append(@, h2[c.ref])]
                    /\ log' = Append(log, "commit")
    /\ UNCHANGED <<inputs, later, autofilledTx, connected, batchSignatures,
                   output, web>>

\* The merge step of a workflow: combineBatchSigners(signedTransactions).
MergeUnsorted(txs) == UnsortedCombine(txs)

Merge(txs) == combineBatchSigners(txs)

CombineSkippingReAutofill ==
    /\ wf \in PipelineWfs /\ pc = "combine"
    /\ LET txs == Deref(heap, signedTransactions)
           d == Alloc(heap, Merge(txs))
       IN
       IF combineBatchSignersThrows(txs)
       THEN pc' = CatchPc /\ error' = "combine"
            /\ UNCHANGED <<combinedTx, log, heap, reAutofilledTx>>
       ELSE /\ pc' = "parentSign" /\ error' = ""
            /\ combinedTx' = <<Merge(txs)>>
            /\ heap' = d.heap /\ reAutofilledTx' = d.ref
            /\ log' = Append(log, "merge")
    /\ UNCHANGED <<inputs, i, autofilledTx, signedTransactions,
                   fullBatch, signed, submitted, result, attempt,
                   connected, batchSignatures, output, warned, web, snap>>

\* Step 5: const combinedTx = combineBatchSigners(signedTransactions)
Combine ==
    /\ wf \in PipelineWfs /\ pc = "combine"
    /\ LET txs == Deref(heap, signedTransactions) IN
       IF combineBatchSignersThrows(txs)
       THEN pc' = CatchPc /\ error' = "combine" /\ UNCHANGED <<combinedTx, log>>
       ELSE /\ pc' = "reautofill" /\ error' = ""
            /\ combinedTx' = <<Merge(txs)>>
            /\ log' = Append(log, "merge")
    /\ UNCHANGED <<inputs, heap, i, autofilledTx, signedTransactions,
                   reAutofilledTx, fullBatch, signed, submitted, result, attempt,
                   connected, batchSignatures, output, warned, web, snap>>

\* Step 6: decode, autofill again, reAutofilledTx.Fee = '1000'
ReAutofill ==
    /\ wf \in PipelineWfs /\ pc = "reautofill"
    /\ \E env \in Envelopes, keep \in BOOLEAN :
          LET d == Alloc(heap, combinedTx[1])
              r == Alloc(d.heap, [autofill(d.heap[d.ref], env, keep)
                                    EXCEPT !.Fee = SubmitFee])
          IN heap' = r.heap /\ reAutofilledTx' = r.ref
    /\ log' = Append(log, "reautofill")
    /\ pc' = "parentSign"
    /\ UNCHANGED <<inputs, i, autofilledTx, signedTransactions, combinedTx,
                   fullBatch, signed, submitted, result, attempt, connected,
                   error, batchSignatures, output, warned, web, snap>>

\* Step 7: const signed = parentWallet.sign(reAutofilledTx)
ParentSign ==
    /\ wf \in PipelineWfs /\ pc = "parentSign"
    /\ signed' = <<walletSign(Derive(parentSeed), heap[reAutofilledTx])>>
    /\ log' = Append(log, "parentSign")
    /\ pc' = "submit"
    /\ UNCHANGED <<inputs, heap, i, autofilledTx, signedTransactions, combinedTx,
                   reAutofilledTx, fullBatch, submitted, result, attempt,
                   connected, error, batchSignatures, output, warned, web, snap>>

\* Step 8: const result = await client.submitAndWait(signed.tx_blob)
Submit ==
    /\ wf \in PipelineWfs /\ pc = "submit"
    /\ \E res \in Results : result' = res
    /\ submitted' = Append(submitted, signed[1])
    /\ log' = Append(log, "submit")
    /\ pc' = (IF wf \in CompleteWfs THEN "report" ELSE "finally")
    /\ UNCHANGED <<inputs, heap, i, autofilledTx, signedTransactions, combinedTx,
                   reAutofilledTx, fullBatch, signed, attempt, connected, error,
                   batchSignatures, output, warned, web, snap>>

\* await client.disconnect(): the last step of the CLI workflows, the
\* finally block of the example scripts and of the demo.
Disconnect ==
    /\ \/ wf \in CompleteWfs /\ pc = "report"
       \/ wf \in ExampleWfs \cup {"demo"} /\ pc = "finally"
    /\ connected' = FALSE /\ pc' = "done"
    /\ UNCHANGED <<inputs, later, heap, i, autofilledTx, signedTransactions,
                   error, batchSignatures, output, warned, web, log, snap>>

\* ------------------------- batchSignersPay.js, batchSignersTrustline.js
\* Wallet.fromSeed for the three seeds, then the template literal.
ExampleBuild ==
    /\ wf \in ExampleWfs /\ pc = "build"
    /\ IF Derive(parentSeed) = 0 \/ \E k \in 1..Len(signerSeeds) : Derive(signerSeeds[k]) = 0
       THEN pc' = "finally" /\ error' = "seed" /\ UNCHANGED <<heap, batchTx, snap>>
       ELSE LET p == Derive(parentSeed)
                raw == IF wf = "examplePay"
                       THEN <<Inner(Derive(signerSeeds[1])), Inner(Derive(signerSeeds[2]))>>
                       ELSE <<Inner(Derive(signerSeeds[1])), Inner(p), Inner(p)>>
                a == Alloc(heap, Template(p, tfUntilFailure, raw))
            IN /\ heap' = a.heap /\ batchTx' = a.ref
               /\ snap' = [snap EXCEPT !.batch = <<a.heap[a.ref]>>]
               /\ pc' = "autofill" /\ error' = ""
    /\ UNCHANGED <<wf, signerSeeds, parentSeed, options, front, later, i, autofilledTx,
                   signedTransactions, connected, batchSignatures, output, warned,
                   web, log>>

\* --------------------------------------------------- devnet.js: the demo
\* startDemoBtn 'click' handler, up to its await: the button is disabled and
\* window.runDevnetDemo() is called.
StartDemoClick ==
    /\ wf = "demo" /\ pc = "start" /\ ~startDemoBtnDisabled
    /\ startDemoBtnDisabled' = TRUE /\ pc' = "connect"
    /\ UNCHANGED <<inputs, later, heap, i, autofilledTx, signedTransactions,
                   connected, error, batchSignatures, output, warned, wallet,
                   fullBatchOutput, devnetMode, generateBtnDisabled, log, snap>>

\* startDemoBtn 'click' handler after runDevnetDemo() has returned: its
\* finally block enables the button.
StartDemoDone ==
    /\ wf = "demo" /\ pc = "done"
    /\ startDemoBtnDisabled' = FALSE /\ pc' = "handled"
    /\ UNCHANGED <<inputs, later, heap, i, autofilledTx, signedTransactions,
                   connected, error, batchSignatures, output, warned, wallet,
                   fullBatchOutput, devnetMode, generateBtnDisabled, log, snap>>

DemoConnect ==
    /\ wf = "demo" /\ pc = "connect"
    /\ connected' = TRUE /\ pc' = "build"
    /\ UNCHANGED <<inputs, later, heap, i, autofilledTx, signedTransactions,
                   error, batchSignatures, output, warned, web, log, snap>>

\* fundWallet three times, then the template literal.
DemoBuild ==
    /\ wf = "demo" /\ pc = "build"
    /\ LET acc1 == Derive(parentSeed)
           acc2 == Derive(signerSeeds[1])
           a == Alloc(heap, Template(acc1, tfUntilFailure, <<Inner(acc1), Inner(acc2)>>))
       IN /\ heap' = a.heap /\ batchTx' = a.ref
          /\ snap' = [snap EXCEPT !.batch = <<a.heap[a.ref]>>]
    /\ pc' = "autofill"
    /\ UNCHANGED <<wf, signerSeeds, parentSeed, options, front, later, i, autofilledTx,
                   signedTransactions, connected, error, batchSignatures, output,
                   warned, web, log>>

\* let autofilled = await client.autofill(batchTemplate)
DemoAutofill ==
    /\ wf = "demo" /\ pc = "autofill"
    /\ \E env \in Envelopes :
          LET a == Alloc(heap, autofill(heap[batchTx], env, TRUE)) IN
          heap' = a.heap /\ autofilledTx' = a.ref
    /\ log' = Append(log, "autofill")
    /\ pc' = "patch"
    /\ UNCHANGED <<inputs, later, i, signedTransactions, connected, error,
                   batchSignatures, output, warned, web, snap>>

\* getLedgerIndex; autofilled.Fee = '100'; autofilled.LastLedgerSequence = current + 60
DemoPatch ==
    /\ wf = "demo" /\ pc = "patch"
    /\ \E currentLedger \in {10, 11} :
          heap' = [heap EXCEPT ![autofilledTx].Fee = DemoFee,
                               ![autofilledTx].LastLedgerSequence =
                                   currentLedger + DemoLedgerBuffer]
    /\ snap' = [snap EXCEPT !.autofilled = <<heap'[autofilledTx]>>]
    /\ pc' = "sign"
    /\ UNCHANGED <<inputs, later, i, autofilledTx, signedTransactions, connected,
                   error, batchSignatures, output, warned, web, log>>

\* batchCopy = JSON.parse(JSON.stringify(autofilled)); signMultiBatch(acc2, batchCopy);
\* fullBatch = { ...autofilled, BatchSigners: signersArray }
DemoSign ==
    /\ wf = "demo" /\ pc = "sign"
    /\ LET w == Derive(signerSeeds[1])
           c == CopyForSigner(heap, autofilledTx, 1)
           throws == signMultiBatchThrows(w, c.heap[c.ref], 0)
           h2 == [c.heap EXCEPT ![c.ref] = signMultiBatch(w, c.heap[c.ref], 0)]
           signersArray == <<h2[c.ref].BatchSigners[1]>>
           f == Alloc(h2, [h2[autofilledTx] EXCEPT !.BatchSigners = signersArray])
       IN
       IF throws
       THEN pc' = "finally" /\ error' = "signMultiBatch" /\ heap' = c.heap
            /\ UNCHANGED <<signedTransactions, fullBatch, output, fullBatchOutput,
                           snap, log>>
       ELSE /\ heap' = f.heap /\ fullBatch' = f.ref
            /\ signedTransactions' = <<c.ref>>
            /\ output' = signersArray
            /\ fullBatchOutput' = <<f.heap[f.ref]>>
            /\ snap' = [snap EXCEPT !.signed = Append(@, h2[c.ref])]
            /\ log' = Append(log, "commit")
            /\ pc' = "outerSign" /\ error' = ""
    /\ UNCHANGED <<inputs, i, autofilledTx, combinedTx, reAutofilledTx, signed,
                   submitted, result, attempt, connected, batchSignatures, warned,
                   wallet, ui>>

\* const signedOuter = acc1.wallet.sign(fullBatch)
DemoOuterSign ==
    /\ wf = "demo" /\ pc = "outerSign"
    /\ signed' = <<walletSign(Derive(parentSeed), heap[fullBatch])>>
    /\ log' = Append(log, "parentSign")
    /\ pc' = "submit"
    /\ UNCHANGED <<inputs, heap, i, autofilledTx, signedTransactions, combinedTx,
                   reAutofilledTx, fullBatch, submitted, result, attempt, connected,
                   error, batchSignatures, output, warned, web, snap>>

\* One pass of the submission loop: submitAndWait, then success (break),
\* ledger expired (Fee = '200', sign autofilled again, next attempt) or throw.
DemoSubmit ==
    /\ wf = "demo" /\ pc = "submit" /\ attempt <= DemoAttempts
    /\ submitted' = Append(submitted, signed[1])
    /\ \E res \in Results :
          /\ result' = res
          /\ IF res = "tesSUCCESS"
             THEN /\ pc' = "finally" /\ log' = Append(log, "submit")
                  /\ UNCHANGED <<heap, signed, attempt, error>>
             ELSE IF res = "telLAST_LEDGER_SEQUENCE"
             THEN /\ heap' = [heap EXCEPT ![autofilledTx].Fee = DemoRetryFee]
                  /\ signed' = <<walletSign(Derive(parentSeed), heap'[autofilledTx])>>
                  /\ log' = log \o <<"submit", "parentSign">>
                  /\ attempt' = attempt + 1
                  /\ pc' = (IF attempt + 1 <= DemoAttempts THEN "submit" ELSE "finally")
                  /\ UNCHANGED error
             ELSE /\ pc' = "finally" /\ error' = "Failed"
                  /\ log' = Append(log, "submit")
                  /\ UNCHANGED <<heap, signed, attempt>>
    /\ UNCHANGED <<inputs, i, autofilledTx, signedTransactions, combinedTx,
                   reAutofilledTx, fullBatch, connected, batchSignatures, output,
                   warned, web, snap>>

\* ------------------------------------------------- script.js: the web form
\* What can be typed into the batch field: nothing, text that is no JSON, or
\* a JSON object.
WebRaw == <<Inner(1), Inner(2)>>
WebGood ==
    {Template(p, tfUntilFailure, WebRaw) : p \in Addr}
        \cup {Template(1, f, WebRaw) : f \in BadBatchFlags}
WebBad ==
    LET t == Template(1, tfUntilFailure, WebRaw) IN
    { [t EXCEPT !.TransactionType = "Payment"],
      [t EXCEPT !.Account = 0],
      [t EXCEPT !.RawTransactions = <<Inner(2)>>],
      [t EXCEPT !.BatchSigners = <<BatchSignerOf(2, t, 0)>>],
      [t EXCEPT !.RawTransactions[1].Fee = 10],
      [t EXCEPT !.RawTransactions[1].SigningPubKey = 2],
      [t EXCEPT !.RawTransactions[1].TxnSignature = 2],
      [t EXCEPT !.RawTransactions[1].Flags = 0] }
WebTexts ==
    {[kind |-> "empty", obj |-> Template(1, 0, <<>>)],
     [kind |-> "garbage", obj |-> Template(1, 0, <<>>)]}
    \cup {[kind |-> "json", obj |-> t] : t \in WebGood \cup WebBad}

\* The checks of the batch field's input handler on the parsed object.
WebValid(parsed) ==
    /\ parsed.TransactionType = "Batch"
    /\ parsed.Account # 0
    /\ Len(parsed.RawTransactions) >= WebMinInner
    /\ Len(parsed.RawTransactions) <= WebMaxInner
    /\ parsed.BatchSigners = <<>>
    /\ \A k \in 1..Len(parsed.RawTransactions) :
          LET tx == parsed.RawTransactions[k] IN
          /\ tx.Fee = 0
          /\ tx.SigningPubKey = 0
          /\ tx.TxnSignature = 0
          /\ HasInnerFlag(tx.Flags)

checkReadyToGenerate(mode, tmpl, w) ==
    [generate |-> IF mode THEN TRUE ELSE ~(tmpl # NoRef /\ w # 0),
     startDemo |-> ~mode]

Buttons(mode, tmpl, w) ==
    /\ generateBtnDisabled' = checkReadyToGenerate(mode, tmpl, w).generate
    /\ startDemoBtnDisabled' = checkReadyToGenerate(mode, tmpl, w).startDemo

webframe == <<wf, signerSeeds, parentSeed, options, front, later, i, autofilledTx,
              signedTransactions, connected, batchSignatures, warned, log, pc>>

\* batchJsonInput 'input' handler
BatchJsonInput ==
    /\ wf = "web"
    /\ \E text \in WebTexts :
          IF text.kind = "json" /\ WebValid(text.obj)
          THEN /\ heap' = <<text.obj>> /\ batchTx' = 1
               /\ snap' = [snap EXCEPT !.batch = <<text.obj>>]
               /\ Buttons(devnetMode, 1, wallet)
          ELSE /\ heap' = <<>> /\ batchTx' = NoRef
               /\ snap' = [snap EXCEPT !.batch = <<>>]
               /\ Buttons(devnetMode, NoRef, wallet)
    /\ UNCHANGED <<webframe, wallet, fullBatchOutput, devnetMode, output, error>>

\* seedInput 'input' handler
SeedInput ==
    /\ wf = "web"
    /\ \E w \in 0..MaxAddr :
          /\ wallet' = w
          /\ Buttons(devnetMode, batchTx, w)
    /\ UNCHANGED <<webframe, heap, batchTx, snap, fullBatchOutput, devnetMode,
                   output, error>>

\* devnetModeCheckbox 'change' handler
DevnetModeChange ==
    /\ wf = "web"
    /\ devnetMode' = ~devnetMode
    /\ Buttons(devnetMode', batchTx, wallet)
    /\ UNCHANGED <<webframe, heap, batchTx, snap, wallet, fullBatchOutput,
                   output, error>>

\* devnetModeCheckbox 'change' handler on the page the demo runs in: the
\* form holds no template (batchTemplate is null), the demo's template is a
\* local of runDevnetDemo.
DemoModeChange ==
    /\ wf = "demo"
    /\ devnetMode' = ~devnetMode
    /\ Buttons(devnetMode', NoRef, wallet)
    /\ UNCHANGED <<webframe, heap, batchTx, snap, wallet, fullBatchOutput,
                   output, error>>

\* generateBtn 'click' handler
GenerateClick ==
    /\ wf = "web" /\ ~generateBtnDisabled
    /\ batchTx # NoRef /\ wallet # 0
    /\ \E confirmed \in BOOLEAN :
          LET tx == heap[batchTx]
              c == CopyForSigner(heap, batchTx, 1)
              throws == signMultiBatchThrows(wallet, c.heap[c.ref], 0)
              h2 == [c.heap EXCEPT ![c.ref] = signMultiBatch(wallet, c.heap[c.ref], 0)]
              entry == h2[c.ref].BatchSigners[1]
          IN
          IF IsSubmitter(tx, wallet)
          THEN error' = "submitter" /\ UNCHANGED <<heap, output, fullBatchOutput>>
          ELSE IF Uninvolved(tx, wallet) /\ ~confirmed
          THEN error' = "Cancelled" /\ UNCHANGED <<heap, output, fullBatchOutput>>
          ELSE IF throws
          THEN error' = "signMultiBatch" /\ UNCHANGED <<heap, output, fullBatchOutput>>
          ELSE /\ error' = ""
               /\ heap' = <<h2[batchTx]>>
               /\ output' = <<entry>>
               /\ fullBatchOutput' = <<[h2[batchTx] EXCEPT !.BatchSigners = <<entry>>]>>
    /\ generateBtnDisabled' = FALSE
    /\ UNCHANGED <<webframe, batchTx, snap, wallet, devnetMode, startDemoBtnDisabled>>

Next ==
    \/ generateBatchSignature
    \/ MultiStart
    \/ MultiIter
    \/ MultiDone
    \/ Connect
    \/ Prepare
    \/ Autofill
    \/ SignStep
    \/ Combine
    \/ ReAutofill
    \/ ParentSign
    \/ Submit
    \/ Disconnect
    \/ ExampleBuild
    \/ StartDemoClick
    \/ DemoConnect
    \/ DemoBuild
    \/ DemoAutofill
    \/ DemoPatch
    \/ DemoSign
    \/ DemoOuterSign
    \/ DemoSubmit
    \/ StartDemoDone
    \/ DemoModeChange
    \/ BatchJsonInput
    \/ SeedInput
    \/ DevnetModeChange
    \/ GenerateClick

Spec == Init /\ [][Next]_vars

\* ------------------------------------ the signing paths on any template
\* The CLI entry points and the web form, given templates that are and are
\* not well formed.
AnyTemplates ==
    MalformedOuter \cup MalformedInner
        \cup {Template(1, tfUntilFailure, raw) : raw \in {<<Inner(2)>>, <<Inner(1)>>}}

InitAny ==
    \/ \E t \in AnyTemplates, s \in Seeds, o \in 0..MaxAddr :
           Blank("sig", <<t>>, 1, <<s>>, BadSeed, o)
    \/ \E t \in AnyTemplates, ss \in SeqsUpTo(Seeds, MaxSigners) :
           Blank("multiSig", <<t>>, 1, ss, BadSeed, 0)
    \/ \E t \in AnyTemplates, s \in Seeds, p \in Seeds :
           Blank("submit1", <<t>>, 1, <<s>>, p, 0)
    \/ \E t \in AnyTemplates, ss \in SeqsUpTo(Seeds, MaxSigners), p \in Seeds :
           Blank("submitN", <<t>>, 1, ss, p, 0)
    \/ Blank("web", <<>>, NoRef, <<>>, BadSeed, 0)

NextAny ==
    \/ generateBatchSignature
    \/ MultiStart
    \/ MultiIter
    \/ MultiDone
    \/ Connect
    \/ Prepare
    \/ Autofill
    \/ SignStep
    \/ Combine
    \/ ReAutofill
    \/ ParentSign
    \/ Submit
    \/ Disconnect
    \/ BatchJsonInput
    \/ SeedInput
    \/ DevnetModeChange
    \/ GenerateClick

SpecAny == InitAny /\ [][NextAny]_vars

\* --------------------------------- signature generation on any seed
InitSeed ==
    \/ \E t \in {Template(1, tfUntilFailure, raw) : raw \in RawSeqs}, s \in AllSeeds :
           Blank("sig", <<t>>, 1, <<s>>, BadSeed, 0)
    \/ \E t \in {Template(1, tfUntilFailure, <<Inner(2), Inner(3)>>)},
           ss \in SeqsUpTo(AllSeeds, MaxSigners) :
           Blank("multiSig", <<t>>, 1, ss, BadSeed, 0)

NextSeed ==
    \/ generateBatchSignature
    \/ MultiStart
    \/ MultiIter
    \/ MultiDone

SpecSeed == InitSeed /\ [][NextSeed]_vars

\* ------------------------------------------- merge as a function of its input
\* The multi-party process of the README: signers commit to the template
\* they were sent (as generateBatchSignature does), the organizer attaches
\* the commitments to the template it holds, which may have changed since,
\* and merges them with combineBatchSigners.
OtherFlags(f) == IF f = tfUntilFailure THEN 65536 ELSE tfUntilFailure

Reverse(q) == [k \in 1..Len(q) |-> q[Len(q) + 1 - k]]

TemplateChanges(t) ==
    {[t EXCEPT !.Flags = OtherFlags(t.Flags)],
     [t EXCEPT !.RawTransactions[1].Amount = 2],
     [t EXCEPT !.RawTransactions = Append(@, Inner(t.Account))]}
    \cup {[t EXCEPT !.RawTransactions = Reverse(@)] :
             x \in {y \in {1} : Reverse(t.RawTransactions) # t.RawTransactions}}
    \cup {[t EXCEPT !.RawTransactions = SubSeq(@, 1, Len(@) - 1)] :
             x \in {y \in {1} : Len(t.RawTransactions) > 1}}

InitMerge == \E t \in Templates : Blank("merge", <<t>>, 1, <<>>, BadSeed, 0)

mergeframe == <<inputs, i, autofilledTx, reAutofilledTx, fullBatch, signed,
                submitted, result, attempt, connected, batchSignatures, output,
                warned, web, log>>

\* One signer commits to the template as sent.
MergeCommit ==
    /\ wf = "merge" /\ pc = "start" /\ Len(signedTransactions) < MaxSigners
    /\ \E w \in Addr :
          LET c == CopyForSigner(heap, batchTx, 1)
              h2 == [c.heap EXCEPT ![c.ref] = signMultiBatch(w, c.heap[c.ref], 0)]
          IN /\ ~IsSubmitter(heap[batchTx], w)
             /\ ~signMultiBatchThrows(w, c.heap[c.ref], 0)
             /\ heap' = h2
             /\ signedTransactions' = Append(signedTransactions, c.ref)
             /\ snap' = [snap EXCEPT !.signed = Append(@, h2[c.ref])]
    /\ UNCHANGED <<mergeframe, pc, error, combinedTx>>

\* The template changes after the commitments were made; the commitments
\* are now attached to the changed template.
MergeChange ==
    /\ wf = "merge" /\ pc = "start" /\ signedTransactions # <<>>
    /\ \E t \in TemplateChanges(heap[batchTx]) :
          heap' = [r \in 1..Len(heap) |->
                     IF r = batchTx THEN t
                     ELSE [t EXCEPT !.BatchSigners = heap[r].BatchSigners]]
    /\ pc' = "changed"
    /\ UNCHANGED <<mergeframe, error, combinedTx, signedTransactions, snap>>

MergeApply ==
    /\ wf = "merge" /\ pc \in {"start", "changed"} /\ signedTransactions # <<>>
    /\ LET txs == Deref(heap, signedTransactions) IN
       IF combineBatchSignersThrows(txs)
       THEN error' = "combine" /\ UNCHANGED combinedTx
       ELSE error' = "" /\ combinedTx' = <<Merge(txs)>>
    /\ pc' = (IF pc = "changed" THEN "mergedChanged" ELSE "merged")
    /\ UNCHANGED <<mergeframe, heap, signedTransactions, snap>>

NextMerge == MergeCommit \/ MergeChange \/ MergeApply

SpecMerge == InitMerge /\ [][NextMerge]_vars

\* ------------------------------------------------ accountSetup.js
\* devnetAccounts.json as generateAndFundAccounts writes it: three funded
\* accounts with distinct addresses, in the order issuer, existing holder,
\* new holder; the seed of each is the seed of its wallet.
FileAddr == 1..(MaxAddr + 1)

Account(r, a) == [role |-> r, address |-> a, seed |-> GoodSeed(a)]

AccountsData(a1, a2, a3) ==
    <<Account("issuer", a1), Account("existing_holder", a2), Account("new_holder", a3)>>

AccountFiles ==
    UNION {UNION {{AccountsData(a1, a2, a3) : a3 \in FileAddr \ {a1, a2}} :
                    a2 \in FileAddr \ {a1}} : a1 \in FileAddr}

Find(accounts, r) == accounts[CHOOSE k \in 1..Len(accounts) : accounts[k].role = r]

\* The four example templates updateExampleFiles writes.
updateExampleFiles(accounts) ==
    LET issuer == Find(accounts, "issuer").address
        existingHolder == Find(accounts, "existing_holder").address
        newHolder == Find(accounts, "new_holder").address
    IN [examplePayment |->
            Template(existingHolder, tfUntilFailure,
                     <<Inner(newHolder), Inner(existingHolder)>>),
        exampleMultiPayment |->
            Template(issuer, tfUntilFailure,
                     <<Inner(existingHolder), Inner(newHolder)>>),
        exampleTrustline |->
            Template(issuer, tfUntilFailure,
                     <<TrustSetInner(newHolder), TokenPayment(issuer),
                       TokenPayment(issuer)>>),
        myCustomBatch |->
            Template(existingHolder, tfUntilFailure,
                     <<[Inner(newHolder) EXCEPT !.Amount = 2],
                       [Inner(existingHolder) EXCEPT !.Amount = 2]>>)]

ExampleNames == {"examplePayment", "exampleMultiPayment", "exampleTrustline", "myCustomBatch"}

\* ------------------------------------------ batchSignerTool.js: test mode
InnerAddressesOf(tx) ==
    {tx.RawTransactions[k].Account : k \in 1..Len(tx.RawTransactions)}

\* innerAccountAddresses without the parent
signerAddressesOf(tx) ==
    {tx.RawTransactions[k].Account : k \in 1..Len(tx.RawTransactions)}
        \ {tx.Account}

hasTokens(tx) ==
    \E k \in 1..Len(tx.RawTransactions) :
        \/ tx.RawTransactions[k].TransactionType = "TrustSet"
        \/ tx.RawTransactions[k].Amount < 0

\* assignAccountRoles: exact matches in file order; when there is no signer
\* or no parent among them, accounts are assigned by role and position.
\* autoAssigned records that the auto-assignment message was logged.
assignAccountRoles(tx, accounts) ==
    LET signerAddresses == signerAddressesOf(tx)
        isMultiSigner == Cardinality(signerAddresses) > 1
        IsParent(account) == account.address = tx.Account
        IsSigner(account) == account.address \in signerAddresses
        exactParent == SelectSeq(accounts, IsParent)
        exactSigners == SelectSeq(accounts, IsSigner)
        auto == exactSigners = <<>> \/ exactParent = <<>>
        parentAccount ==
            IF exactParent # <<>> THEN exactParent
            ELSE IF hasTokens(tx) THEN <<Find(accounts, "issuer")>>
            ELSE <<accounts[1]>>
        signerAccounts ==
            IF exactSigners # <<>> THEN exactSigners
            ELSE IF hasTokens(tx) THEN <<Find(accounts, "new_holder")>>
            ELSE IF isMultiSigner THEN <<accounts[2], accounts[3]>>
            ELSE <<accounts[2]>>
    IN [signerAccounts |-> signerAccounts, parentAccount |-> parentAccount,
        isMultiSigner |-> isMultiSigner, autoAssigned |-> auto]

SeedsOf(accounts) == [k \in 1..Len(accounts) |-> accounts[k].seed]

\* ------------------------------------- batchSignerTool.js: main and modes
\* A seed argument that was not given (undefined) or an empty answer.
NoSeed == [isString |-> FALSE, first |-> "", len |-> 0, addr |-> 0]

Strings == {SeedString(a) : a \in Addr} \cup {AddrString(a) : a \in Addr}

\* filteredArgs.length in main: --submit counts, --test does not.
ArgCount == argv.n + (IF argv.submitFlag THEN 1 ELSE 0)

SubmitModeAlways == TRUE

\* const submitMode = args.includes('--submit')
submitMode == argv.submitFlag

\* The batch file named by the first argument can be read.
BatchFileExists == argv.n >= 1 /\ argv.fileExists

mainframe == <<heap, batchTx, later, i, autofilledTx, signedTransactions,
               connected, batchSignatures, output, warned, web, log, snap,
               argv, devnetAccounts>>

\* The mode main calls for the command line; "usage": none, the help text.
Mode ==
    IF ArgCount >= 1 /\ ~argv.testFlag
    THEN (IF ArgCount = 1 THEN "runInteractiveProduction" ELSE "runCommandLine")
    ELSE IF ArgCount = 1 /\ argv.testFlag THEN "runTestMode"
    ELSE IF ArgCount = 0 /\ ~argv.testFlag THEN "runInteractive"
    ELSE "usage"

\* const tool = new BatchSignerTool() creates the readline interface; then
\* the dispatch on the arguments.
main ==
    /\ wf = "main" /\ pc = "start"
    /\ pc' = Mode
    /\ rl' = "open"
    /\ returned' = (Mode = "usage")
    /\ UNCHANGED <<mainframe, wf, signerSeeds, parentSeed, options, error, roles>>

\* Load the file, ask for the seed, generateBatchSignature(batchTx, signerSeed).
runInteractiveProduction ==
    /\ wf = "main" /\ pc = "runInteractiveProduction"
    /\ IF ~BatchFileExists
       THEN /\ pc' = "done" /\ error' = "file"
            /\ rl' = "closed" /\ returned' = TRUE
            /\ UNCHANGED <<wf, signerSeeds, options>>
       ELSE /\ \E s \in Seeds \cup {NoSeed} : signerSeeds' = <<s>>
            /\ wf' = "sig" /\ pc' = "start" /\ options' = 0
            /\ UNCHANGED <<error, rl, returned>>
    /\ UNCHANGED <<mainframe, parentSeed, roles>>

\* With --submit: generateAndSubmitBatch(batchTx, signerSeed, parentSeed,
\* {batchAccount}); without: generateBatchSignature(batchTx, signerSeed,
\* {batchAccount}).
runCommandLine ==
    /\ wf = "main" /\ pc = "runCommandLine"
    /\ IF ~BatchFileExists
       THEN /\ pc' = "done" /\ error' = "file"
            /\ returned' = TRUE
            /\ UNCHANGED <<wf, signerSeeds, parentSeed, options, rl>>
       ELSE /\ signerSeeds' = <<IF argv.n >= 2 THEN argv.seed ELSE NoSeed>>
            /\ pc' = "start" /\ UNCHANGED <<error, rl, returned>>
            /\ IF submitMode
               THEN /\ wf' = "submit1"
                    /\ parentSeed' = (IF argv.n >= 3 THEN argv.third.asSeed ELSE NoSeed)
                    /\ options' = (IF argv.n >= 4 THEN argv.fourth ELSE 0)
               ELSE /\ wf' = "sig"
                    /\ options' = (IF argv.n >= 3 THEN argv.third.asAddr ELSE 0)
                    /\ UNCHANGED parentSeed
    /\ UNCHANGED <<mainframe, roles>>

\* Load the accounts and the batch, assign the roles, ask what to do.
runTestMode ==
    /\ wf = "main" /\ pc = "runTestMode"
    /\ IF devnetAccounts = <<>>
       THEN /\ pc' = "done"
            /\ rl' = "closed" /\ returned' = TRUE
            /\ UNCHANGED <<wf, signerSeeds, parentSeed, error, roles>>
       ELSE IF ~BatchFileExists
       THEN /\ pc' = "done" /\ error' = "file"
            /\ rl' = "closed" /\ returned' = TRUE
            /\ UNCHANGED <<wf, signerSeeds, parentSeed, roles>>
       ELSE LET r == assignAccountRoles(heap[batchTx], devnetAccounts) IN
            /\ roles' = <<r>>
            /\ \E choice \in {"1", "2", "other"} :
                 IF choice = "other"
                 THEN /\ pc' = "done"
                      /\ rl' = "closed" /\ returned' = TRUE
                      /\ UNCHANGED <<wf, signerSeeds, parentSeed, error>>
                 ELSE /\ pc' = "start" /\ UNCHANGED <<error, rl, returned>>
                      /\ signerSeeds' = (IF r.isMultiSigner
                                         THEN SeedsOf(r.signerAccounts)
                                         ELSE <<r.signerAccounts[1].seed>>)
                      /\ IF choice = "1"
                         THEN /\ wf' = (IF r.isMultiSigner THEN "multiSig" ELSE "sig")
                              /\ UNCHANGED parentSeed
                         ELSE /\ wf' = (IF r.isMultiSigner THEN "submitN" ELSE "submit1")
                              /\ parentSeed' = r.parentAccount[1].seed
    /\ UNCHANGED <<mainframe, options>>

\* The prompts of runInteractive and, for choice 3, of runManualMode.
runInteractive ==
    /\ wf = "main" /\ pc = "runInteractive"
    /\ \E choice \in {"1", "2", "3", "other"}, parses \in BOOLEAN,
          s \in Seeds, p \in Seeds, o \in 0..MaxAddr :
          IF ~parses
          THEN /\ pc' = "done" /\ error' = "parse"
               /\ rl' = "closed" /\ returned' = TRUE
               /\ UNCHANGED <<wf, signerSeeds, parentSeed, options>>
          ELSE IF choice = "other"
          THEN /\ pc' = "done"
               /\ rl' = "closed" /\ returned' = TRUE
               /\ UNCHANGED <<wf, signerSeeds, parentSeed, options, error>>
          ELSE /\ pc' = "start" /\ signerSeeds' = <<s>> /\ options' = o
               /\ UNCHANGED <<error, rl, returned>>
               /\ IF choice = "1"
                  THEN wf' = "sig" /\ UNCHANGED parentSeed
                  ELSE wf' = "submit1" /\ parentSeed' = p
    /\ UNCHANGED <<mainframe, roles>>

\* The method a mode awaited has returned or thrown: the mode's catch block
\* logs the error, its finally block (runInteractive, runInteractiveProduction,
\* runTestMode) closes the readline interface, and the mode returns to main.
\* runCommandLine has no finally block.
modeReturn ==
    /\ argv # NoArgv /\ wf \in {"sig", "multiSig", "submit1", "submitN"}
    /\ pc \in {"done", "failed"} /\ ~returned
    /\ returned' = TRUE
    /\ rl' = (IF Mode = "runCommandLine" THEN rl ELSE "closed")
    /\ UNCHANGED <<mainframe, wf, pc, signerSeeds, parentSeed, options, error, roles>>

MainTemplates == {Template(1, tfUntilFailure, raw) : raw \in RawSeqs}

TestTemplates(accounts) ==
    {Template(p, tfUntilFailure, raw) : p \in Addr, raw \in RawSeqs}
        \cup {updateExampleFiles(a)[name] :
                a \in {accounts} \ {<<>>}, name \in ExampleNames}

InitMain ==
    /\ roles = <<>>
    /\ \/ \E t \in MainTemplates, n \in 0..4, sub \in BOOLEAN, f \in BOOLEAN,
             s2 \in Seeds, s3 \in Strings, a4 \in Addr :
             /\ n < 2 => s2 = BadSeed
             /\ n < 3 => s3 = AddrString(1)
             /\ n < 4 => a4 = 1
             /\ n < 1 => ~f
             /\ Fresh("main", <<t>>, 1, <<>>, BadSeed, 0)
             /\ argv = Argv(FALSE, sub, n, f, s2, s3, a4)
             /\ devnetAccounts = <<>>
       \/ \E accounts \in AccountFiles \cup {<<>>}, n \in 1..2, f \in BOOLEAN :
             \E t \in TestTemplates(accounts) :
                /\ Fresh("main", <<t>>, 1, <<>>, BadSeed, 0)
                /\ argv = Argv(TRUE, FALSE, n, f, BadSeed, AddrString(1), 1)
                /\ devnetAccounts = accounts

NextMain ==
    \/ main
    \/ runInteractiveProduction
    \/ runCommandLine
    \/ runTestMode
    \/ runInteractive
    \/ modeReturn
    \/ generateBatchSignature
    \/ MultiStart
    \/ MultiIter
    \/ MultiDone
    \/ Connect
    \/ Prepare
    \/ Autofill
    \/ SignStep
    \/ Combine
    \/ ReAutofill
    \/ ParentSign
    \/ Submit
    \/ Disconnect

SpecMain == InitMain /\ [][NextMain]_vars

\* ================================================================ claims
TemplateAccount == snap.batch[1].Account

SelfSigner ==
    /\ snap.batch # <<>>
    /\ \E k \in 1..Len(signerSeeds) : Derive(signerSeeds[k]) = TemplateAccount

CliWfs == {"sig", "multiSig", "submit1", "submitN"}

Terminal == pc \in {"done", "failed", "exited"}

\* C1. Self-commitment rejection: when a signer's derived address is the
\* template's Account, every CLI signing path ends in an error, returns no
\* BatchSigner, makes no commitment with the submitter's key and submits
\* nothing; the web Generate handler reports the error and changes neither
\* its outputs nor its template.
C1_SelfCommitmentRejected ==
    /\ [](wf \in CliWfs /\ SelfSigner =>
            /\ pc # "done"
            /\ output = <<>>
            /\ submitted = <<>>
            /\ signed = <<>>
            /\ \A k \in 1..Len(snap.signed) :
                  snap.signed[k].BatchSigners[1].SigningPubKey # TemplateAccount
            /\ \A k \in 1..Len(batchSignatures) :
                  batchSignatures[k].SigningPubKey # TemplateAccount
            /\ (Terminal => error # ""))
    /\ [][GenerateClick /\ wallet = heap[batchTx].Account =>
            /\ error' = "submitter"
            /\ UNCHANGED <<output, fullBatchOutput, heap>>]_vars

\* C1 witness: the multi-signer workflow stopped at a signer that is the
\* submitter and also acts in an inner transaction, after another signer
\* had committed.
C1_Witness ==
    /\ wf = "submitN" /\ pc = "failed" /\ error = "submitter"
    /\ Len(snap.signed) = 1
    /\ ~Uninvolved(snap.batch[1], TemplateAccount)

RECURSIVE Repeat(_, _)
Repeat(x, n) == IF n = 0 THEN <<>> ELSE <<x>> \o Repeat(x, n - 1)

IsPrefix(s, t) == Len(s) <= Len(t) /\ s = SubSeq(t, 1, Len(s))

FullOrder(n) ==
    <<"autofill">> \o Repeat("commit", n)
        \o <<"merge", "reautofill", "parentSign", "submit">>

\* The parent signed the re-autofilled merge of the signers' copies of the
\* autofilled template, and that is what was submitted.
SubmittedIsMergedAndSigned ==
    /\ \A k \in 1..Len(signedTransactions) :
          [heap[signedTransactions[k]] EXCEPT !.BatchSigners = <<>>] = snap.autofilled[1]
    /\ combinedTx = <<Merge(Deref(heap, signedTransactions))>>
    /\ heap[reAutofilledTx].BatchSigners = combinedTx[1].BatchSigners
    /\ signed = <<walletSign(Derive(parentSeed), heap[reAutofilledTx])>>
    /\ submitted = signed

\* C2 as stated: every complete workflow that submits went through autofill,
\* one commitment per signer, merge, re-autofill, parent signing, submission.
C2_Original ==
    wf \in PipelineWfs \cup {"demo"} /\ submitted # <<>> =>
        /\ log = FullOrder(Len(signerSeeds))
        /\ SubmittedIsMergedAndSigned

\* C2 amended. The CLI workflows and the example scripts take the steps in
\* that order, none skipped; the devnet demo has no merge and no re-autofill:
\* there autofill and the commitment come first and every submission follows
\* a full signing by the parent.
C2_WorkflowOrdering ==
    /\ wf \in PipelineWfs =>
          /\ IsPrefix(log, FullOrder(Len(signerSeeds)))
          /\ (submitted # <<>> =>
                 log = FullOrder(Len(signerSeeds)) /\ SubmittedIsMergedAndSigned)
    /\ wf = "demo" =>
          /\ IsPrefix(log, <<"autofill", "commit", "parentSign", "submit",
                             "parentSign", "submit", "parentSign">>)
          /\ \A k \in 1..Len(submitted) :
                submitted[k].TxnSignature = Derive(parentSeed)

\* C2 witness: the multi-signer workflow submitted with two commitments.
C2_Witness ==
    wf = "submitN" /\ Len(submitted) = 1 /\ Len(signedTransactions) = 2

SignerAccounts(txs) == {txs[k].BatchSigners[1].Account : k \in 1..Len(txs)}

Perms(n) == {f \in [1..n -> 1..n] : \A j, k \in 1..n : f[j] = f[k] => j = k}

\* C4. Canonical ordering: when the signed copies handed to merge have
\* distinct signer addresses, the merged signer list is strictly ascending in
\* the account ordering, and merging the copies in any other order gives the
\* same transaction.
C4_CanonicalOrdering ==
    LET txs == Deref(heap, signedTransactions)
        signers == combinedTx[1].BatchSigners
    IN wf \in PipelineWfs /\ combinedTx # <<>>
         /\ Cardinality(SignerAccounts(txs)) = Len(txs) =>
           /\ \A j, k \in 1..Len(signers) :
                 j < k => signers[j].Account < signers[k].Account
           /\ \A f \in Perms(Len(txs)) :
                 LET p == [k \in 1..Len(txs) |-> txs[f[k]]] IN
                 ~combineBatchSignersThrows(p) /\ Merge(p) = combinedTx[1]

\* C4 witness: two commitments were merged that came in descending order.
C4_Witness ==
    /\ wf = "submitN" /\ combinedTx # <<>> /\ Len(signedTransactions) = 2
    /\ heap[signedTransactions[1]].BatchSigners[1].Account
         > heap[signedTransactions[2]].BatchSigners[1].Account
    /\ Len(combinedTx[1].BatchSigners) = 2

\* C5 as stated. Dedup last-wins: the merged transaction has exactly one
\* entry for every signer address supplied (other than the submitter's), the
\* latest one supplied for it.
C5_DedupLastWins ==
    LET txs == Deref(heap, signedTransactions)
        signers == combinedTx[1].BatchSigners
        Latest(a) == txs[CHOOSE k \in 1..Len(txs) :
                           /\ txs[k].BatchSigners[1].Account = a
                           /\ \A m \in (k + 1)..Len(txs) :
                                 txs[m].BatchSigners[1].Account # a].BatchSigners[1]
    IN wf \in PipelineWfs /\ combinedTx # <<>> =>
           \A a \in SignerAccounts(txs) \ {combinedTx[1].Account} :
               /\ Cardinality({k \in 1..Len(signers) : signers[k].Account = a}) = 1
               /\ \E k \in 1..Len(signers) : signers[k] = Latest(a)

SameCore(a, b) ==
    /\ a.TransactionType = b.TransactionType
    /\ a.Account = b.Account
    /\ a.Flags = b.Flags
    /\ a.RawTransactions = b.RawTransactions

\* C6. Envelope tolerance: the transaction the parent signs, and every
\* transaction submitted, has the kind, Account, Flags and RawTransactions the
\* signers committed to, whatever the re-autofill did to Sequence, Fee and
\* LastLedgerSequence; every commitment collected and every commitment
\* carried verifies against it; in the merging workflows its Fee is '1000'.
C6_EnvelopeTolerance ==
    wf \in PipelineWfs \cup {"demo"} =>
        \A b \in {signed[k] : k \in 1..Len(signed)}
                 \cup {submitted[k] : k \in 1..Len(submitted)} :
            /\ \A k \in 1..Len(snap.signed) :
                  /\ SameCore(b, snap.signed[k])
                  /\ Verifies(snap.signed[k].BatchSigners[1], b)
            /\ \A k \in 1..Len(b.BatchSigners) : Verifies(b.BatchSigners[k], b)
            /\ (wf \in PipelineWfs => b.Fee = SubmitFee)

\* C6 witness: a submitted transaction carries two commitments and its
\* Sequence and LastLedgerSequence differ from those of the template the
\* signers saw.
C6_Witness ==
    /\ wf = "submitN" /\ Len(submitted) = 1
    /\ Len(submitted[1].BatchSigners) = 2
    /\ submitted[1].Sequence # snap.autofilled[1].Sequence
    /\ submitted[1].LastLedgerSequence # snap.autofilled[1].LastLedgerSequence

\* C7. Same template for all commitments: every signed copy is the one
\* autofilled template plus its own BatchSigners, so the copies agree on
\* Flags, RawTransactions, Sequence, Fee and LastLedgerSequence; while the
\* signers commit, the template stays as autofill returned it and no other
\* protocol step intervenes.
C7_SameTemplate ==
    wf \in PipelineWfs /\ signedTransactions # <<>> =>
        /\ \A k \in 1..Len(signedTransactions) :
              [heap[signedTransactions[k]] EXCEPT !.BatchSigners = <<>>]
                  = snap.autofilled[1]
        /\ \A j, k \in 1..Len(signedTransactions) :
              LET a == heap[signedTransactions[j]]
                  b == heap[signedTransactions[k]]
              IN /\ SameCore(a, b)
                 /\ a.Sequence = b.Sequence /\ a.Fee = b.Fee
                 /\ a.LastLedgerSequence = b.LastLedgerSequence
        /\ (pc \in {"sign", "combine"} =>
               /\ heap[autofilledTx] = snap.autofilled[1]
               /\ log = <<"autofill">> \o Repeat("commit", Len(signedTransactions)))

\* C7 witness: the payment example holds two signed copies before the merge.
C7_Witness ==
    wf = "examplePay" /\ pc = "combine" /\ Len(signedTransactions) = 2

\* C8 as stated. Completeness before submission: every submitted batch
\* carries a commitment for every account other than the submitter that is
\* the Account of an inner transaction.
C8_CompleteBeforeSubmission ==
    wf \in PipelineWfs \cup {"demo"} =>
        \A k \in 1..Len(submitted) :
            \A j \in 1..Len(submitted[k].RawTransactions) :
                LET a == submitted[k].RawTransactions[j].Account IN
                a # submitted[k].Account =>
                    \E m \in 1..Len(submitted[k].BatchSigners) :
                        submitted[k].BatchSigners[m].Account = a

\* C9. No mutation of inputs: the caller's template (the web form's held
\* template) stays the object it was when passed in; the autofilled template
\* keeps its kind, Account, Flags and RawTransactions and gains no
\* BatchSigners; every signed copy stays as it was when signed, through the
\* later commitments and the merge.
C9_NoMutationOfInputs ==
    /\ batchTx # NoRef => heap[batchTx] = snap.batch[1]
    /\ autofilledTx # NoRef /\ snap.autofilled # <<>> =>
          /\ SameCore(heap[autofilledTx], snap.autofilled[1])
          /\ heap[autofilledTx].BatchSigners = <<>>
          /\ (wf \in PipelineWfs => heap[autofilledTx] = snap.autofilled[1])
    /\ \A k \in 1..Len(signedTransactions) :
          heap[signedTransactions[k]] = snap.signed[k]

\* C9 witness: two signed copies have been merged.
C9_Witness ==
    wf = "submitN" /\ pc = "reautofill" /\ Len(signedTransactions) = 2

\* C10. Signer independence: the commitment held for the k-th signer is the
\* one computed from that signer's wallet and the template alone, whatever
\* the other signers are and in whatever order they signed, and the template
\* is the same for all of them.
C10_SignerIndependence ==
    /\ wf \in PipelineWfs =>
          /\ \A k \in 1..Len(signedTransactions) :
                heap[signedTransactions[k]].BatchSigners =
                    <<BatchSignerOf(Derive(signerSeeds[k]), snap.autofilled[1], options)>>
          /\ (signedTransactions # <<>> /\ pc \in {"sign", "combine"} =>
                 heap[autofilledTx] = snap.autofilled[1])
    /\ wf = "multiSig" =>
          /\ \A k \in 1..Len(batchSignatures) :
                batchSignatures[k] =
                    BatchSignerOf(Derive(signerSeeds[k]), snap.batch[1], options)
          /\ heap[batchTx] = snap.batch[1]

\* C10 witness: two different signers have committed, the second one with
\* the lower address.
C10_Witness ==
    /\ wf = "submitN" /\ pc = "combine" /\ Len(signedTransactions) = 2
    /\ Derive(signerSeeds[1]) > Derive(signerSeeds[2])

PolicyBits == {65536, 131072, tfUntilFailure, 524288}

OnePolicyBit(f) == Cardinality({b \in PolicyBits : (f \div b) % 2 = 1}) = 1

StructureOK(t) ==
    /\ t.TransactionType = "Batch"
    /\ Len(t.RawTransactions) > 0
    /\ OnePolicyBit(t.Flags)

InnerOK(t) ==
    \A k \in 1..Len(t.RawTransactions) :
        LET in == t.RawTransactions[k] IN
        in.Fee = 0 /\ in.SigningPubKey = 0 /\ in.TxnSignature = 0
            /\ HasInnerFlag(in.Flags)

NoCommitment ==
    /\ snap.signed = <<>> /\ output = <<>> /\ batchSignatures = <<>>
    /\ signedTransactions = <<>> /\ submitted = <<>>
    /\ (Terminal => error # "")

\* C11 as stated. Outer structure preconditions: on every signing path, a
\* template whose kind is not "Batch", whose inner list is empty, or whose
\* flags do not have exactly one policy bit, ends in an error and gets no
\* commitment; the web form displays no signed batch with such a structure.
C11_OuterStructure ==
    /\ wf \in CliWfs /\ ~StructureOK(snap.batch[1]) => NoCommitment
    /\ wf = "web" =>
          \A k \in 1..Len(fullBatchOutput) : StructureOK(fullBatchOutput[k])

\* C12 as stated. Inner transaction invariants: on every signing path, a
\* template with an inner transaction that has a Fee other than "0", a
\* SigningPubKey, a TxnSignature, or no inner-batch flag, ends in an error
\* and gets no commitment; the web form holds and signs no such template.
C12_InnerInvariants ==
    /\ wf \in CliWfs /\ ~InnerOK(snap.batch[1]) => NoCommitment
    /\ wf = "web" =>
          /\ (batchTx # NoRef => InnerOK(heap[batchTx]))
          /\ \A k \in 1..Len(fullBatchOutput) : InnerOK(fullBatchOutput[k])

\* C13 as stated. Involvement classification is advisory: with a well-formed
\* template and a valid seed, generateBatchSignature fails only for the
\* submitter; any other signer gets a commitment, with the warning exactly
\* when it is the Account of no inner transaction.
C13_InvolvementAdvisory ==
    wf = "sig" /\ Terminal /\ validateSeed(signerSeeds[1])
        /\ validateBatchTransaction(snap.batch[1]) =>
        LET w == Derive(signerSeeds[1])
            t == snap.batch[1]
        IN IF IsSubmitter(t, w)
           THEN error = "submitter" /\ output = <<>>
           ELSE /\ pc = "done" /\ error = "" /\ Len(output) = 1
                /\ (warned <=> Uninvolved(t, w))

RequiredSigners(t) ==
    {t.RawTransactions[k].Account : k \in 1..Len(t.RawTransactions)} \ {t.Account}

\* C14 as stated. Zero-commitment batches: for a batch whose inner
\* transactions all belong to the submitter, the role assignment names no
\* signer, and a complete workflow started with the submitter's valid seed
\* ends without error, having submitted once and never merged.
C14_ZeroCommitmentBatches ==
    LET t == snap.batch[1] IN
    snap.batch # <<>> /\ RequiredSigners(t) = {} =>
        /\ \A k \in 1..Len(roles) : roles[k].signerAccounts = <<>>
        /\ (wf \in CompleteWfs /\ Terminal /\ validateSeed(parentSeed)
               /\ parentSeed.addr = t.Account =>
               /\ pc = "done" /\ error = "" /\ Len(submitted) = 1
               /\ \A k \in 1..Len(log) : log[k] # "merge")

NeverOnLedger ==
    /\ ~connected /\ submitted = <<>> /\ signed = <<>>
    /\ wf \in {"main", "sig"}
    /\ (wf = "sig" /\ pc = "done" => Len(output) = 1)

IsExample(t, accounts) ==
    \E name \in ExampleNames : t = updateExampleFiles(accounts)[name]

AddressesOf(accounts) == {accounts[k].address : k \in 1..Len(accounts)}

\* C17. Examples work in test mode after setup: for the account file and
\* each of the four example templates of one accountSetup run, the role
\* assignment is made by exact address match without auto-assignment: the
\* parent is the template's Account, the signers are exactly the other inner
\* Accounts, once each, the parent is not among them, and isMultiSigner is
\* true exactly for exampleMultiPayment.
C17_ExamplesAfterSetup ==
    \A k \in 1..Len(roles) :
        LET t == snap.batch[1]
            r == roles[k]
        IN IsExample(t, devnetAccounts) =>
            /\ ~r.autoAssigned
            /\ AddressesOf(r.parentAccount) = {t.Account}
            /\ AddressesOf(r.signerAccounts) = RequiredSigners(t)
            /\ Len(r.signerAccounts) = Cardinality(RequiredSigners(t))
            /\ t.Account \notin AddressesOf(r.signerAccounts)
            /\ (r.isMultiSigner <=>
                   t = updateExampleFiles(devnetAccounts).exampleMultiPayment)

\* C17 witness: test mode started the multi-signer workflow for
\* exampleMultiPayment.
C17_Witness ==
    /\ roles # <<>> /\ wf = "submitN"
    /\ snap.batch[1] = updateExampleFiles(devnetAccounts).exampleMultiPayment

\* C18. Determinism under replay: two commitments made with the same seed
\* over the same unchanged template have the same Account and SigningPubKey,
\* and both signatures verify against the digest of the template's Flags and
\* inner transactions.
C18_DeterminismUnderReplay ==
    wf = "multiSig" =>
        \A j, k \in 1..Len(batchSignatures) :
            signerSeeds[j] = signerSeeds[k] =>
                /\ batchSignatures[j].Account = batchSignatures[k].Account
                /\ batchSignatures[j].SigningPubKey = batchSignatures[k].SigningPubKey
                /\ Verifies(batchSignatures[j], snap.batch[1])
                /\ Verifies(batchSignatures[k], snap.batch[1])
                /\ heap[batchTx] = snap.batch[1]

\* C18 witness: the same seed committed twice.
C18_Witness ==
    /\ wf = "multiSig" /\ Len(batchSignatures) = 2
    /\ signerSeeds[1] = signerSeeds[2]

Accepted(seed) ==
    seed.isString /\ seed.len > 0 /\ seed.first = "s" /\ seed.len >= 25

FirstFailingCheck(seed) ==
    IF ~(seed.isString /\ seed.len > 0) THEN "Invalid seed: must be a string"
    ELSE IF seed.first # "s" THEN "Invalid seed: must start with s"
    ELSE "Invalid seed: too short"

\* C19. validateSeed accepts a seed exactly when it is a non-empty string
\* that starts with 's' and has at least 25 characters; otherwise the run
\* fails with the error of the first failing check in the order: not a
\* (non-empty) string, wrong first character, too short.
C19_ValidateSeed ==
    /\ \A seed \in AllSeeds : validateSeed(seed) <=> Accepted(seed)
    /\ wf = "sig" /\ Terminal =>
          IF Accepted(signerSeeds[1])
          THEN error \in {"", "submitter", "signMultiBatch"}
          ELSE pc = "failed" /\ error = FirstFailingCheck(signerSeeds[1])
                 /\ output = <<>>

\* C19 witness: a seed that fails two checks was rejected for the earlier one.
C19_Witness ==
    /\ wf = "sig" /\ pc = "failed"
    /\ signerSeeds[1].first # "s" /\ signerSeeds[1].len < 25
    /\ signerSeeds[1].isString
    /\ error = "Invalid seed: must start with s"

\* C20. Parent must be the submitter: a complete workflow whose parent seed
\* does not derive the batch's Account takes no protocol step (no autofill,
\* commitment, merge, parent signing or submission) and ends in an error.
C20_ParentMustBeSubmitter ==
    wf \in CompleteWfs /\ Derive(parentSeed) # snap.batch[1].Account =>
        /\ log = <<>> /\ autofilledTx = NoRef /\ snap.autofilled = <<>>
        /\ snap.signed = <<>> /\ signedTransactions = <<>>
        /\ combinedTx = <<>> /\ signed = <<>> /\ submitted = <<>>
        /\ pc \in {"start", "prepare", "failed"}
        /\ (pc = "failed" => error # "")

\* C20 witness: the workflow stopped at the parent check.
C20_Witness ==
    /\ wf \in CompleteWfs /\ pc = "failed" /\ error = "parentMismatch"
    /\ validateSeed(parentSeed)

\* C21 as stated. The parent is never a signer: whatever assignAccountRoles
\* returned, no account in signerAccounts has the address of the batch's
\* Account or is the account returned as parentAccount.
C21_ParentNeverSigner ==
    \A k \in 1..Len(roles) :
        LET t == snap.batch[1]
            r == roles[k]
        IN /\ t.Account \notin AddressesOf(r.signerAccounts)
           /\ \A j \in 1..Len(r.signerAccounts) :
                 r.signerAccounts[j] # r.parentAccount[1]

\* C22 as stated. Signers are complete: whatever assignAccountRoles returned,
\* signerAccounts has an account for every inner Account other than the
\* batch's Account, and isMultiSigner is true only with more than one signer
\* account.
C22_SignersComplete ==
    \A k \in 1..Len(roles) :
        LET t == snap.batch[1]
            r == roles[k]
        IN /\ RequiredSigners(t) \subseteq AddressesOf(r.signerAccounts)
           /\ (r.isMultiSigner => Len(r.signerAccounts) > 1)

\* C23 as stated. The demo's submitted blobs carry the commitment: every
\* blob the devnet demo submits has the BatchSigners entry Acc2 produced, and
\* the Flags and RawTransactions of the copy Acc2 signed.
C23_DemoBlobsCarryCommitment ==
    wf = "demo" =>
        \A k \in 1..Len(submitted) :
            /\ snap.signed # <<>>
            /\ submitted[k].BatchSigners = output
            /\ output # <<>>
            /\ submitted[k].Flags = snap.signed[1].Flags
            /\ submitted[k].RawTransactions = snap.signed[1].RawTransactions

\* C24 as stated. The demo's submission loop: at most two attempts are made;
\* a finished run had a successful last result or ended with an error; and
\* a blob signed again for a retry has been submitted when the run is over.
C24_DemoAttemptsAndOutcome ==
    wf = "demo" =>
        /\ Len(submitted) <= DemoAttempts
        /\ (pc \in {"finally", "done", "handled"} =>
               /\ result = "tesSUCCESS" \/ error # ""
               /\ (signed # <<>> /\ error = "" =>
                      submitted # <<>> /\ submitted[Len(submitted)] = signed[1]))

\* C25 as stated. The client is disconnected on every exit: when
\* generateAndSubmitBatch or generateAndSubmitMultiSignerBatch has returned
\* or thrown, the ledger client it connected is no longer connected.
C25_DisconnectOnEveryExit ==
    wf \in CompleteWfs /\ Terminal => ~connected

\* C26 as stated. Every mode closes the readline interface: when the mode
\* main called (interactive, interactive production, command line, test) has
\* returned, on success or on error, the readline interface the constructor
\* created is closed.
C26_ReadlineClosed ==
    returned /\ Mode # "usage" => rl = "closed"

\* The template the form holds: the web form's batchTemplate; on the page of
\* the demo nothing was typed.
FormTemplate == IF wf = "web" THEN batchTx ELSE NoRef

\* C27 as stated. Web form button invariant: the Generate button is enabled
\* only if demo mode is off and the form holds a valid template and a
\* wallet, and the Start Demo button is enabled only if demo mode is on.
C27_ButtonInvariant ==
    wf \in {"web", "demo"} =>
        /\ (~generateBtnDisabled =>
               ~devnetMode /\ FormTemplate # NoRef /\ wallet # 0)
        /\ (~startDemoBtnDisabled => devnetMode)

====
